---- MODULE Spec2Model ----
(***************************************************************************)
(* Separator-aware parser combinators of nom-whitespace                    *)
(* (src/src/whitespace.rs): the ws!/sep! rewriting and the combinator      *)
(* variants it produces (wrap_sep, tuple_sep, pair_sep, alt_sep,           *)
(* alt_complete_sep, permutation_sep, ...).                                *)
(*                                                                         *)
(* An input cursor is the sequence of characters still to be parsed.  A    *)
(* parser is a node of a grammar tree; running it on a cursor yields an    *)
(* outcome record:                                                         *)
(*   tag   "Ok" | "Error" (recoverable) | "Incomplete" | "Failure" (fatal) *)
(*   rest  remaining cursor (Ok)                                           *)
(*   out   produced value (Ok)                                             *)
(*   err   error context, a sequence of [kind, at] (Error, Failure)        *)
(*   need  Needed::Size hint (Incomplete)                                  *)
(*   calls the sub-parser invocations the combinator made, in order, each  *)
(*         [idx |-> position of the sub-parser, at |-> cursor handed to it]*)
(***************************************************************************)
EXTENDS Integers, Sequences, FiniteSets, TLC

VARIABLES
  input,     \* the input handed to the parser
  complete,  \* TRUE: input type with at_eof() (CompleteStr); FALSE: &[u8] / &str
  verbose,   \* TRUE: nom built with the verbose-errors feature
  pc,        \* "ready" before the call, "done" after it
  op,        \* entry point used: "sp", "wrap_sep", "ws", "sep", "direct"
  gr,        \* the grammar node the entry point was applied to
  res        \* the outcome returned

vars == <<input, complete, verbose, pc, op, gr, res>>

\* Longest input enumerated.
MaxLen == 5
\* Longest separator text put in front of an input when two runs are compared.
MaxSep == 2

RECURSIVE Seqs(_, _)
\* All sequences over S of length at most n.
Seqs(S, n) ==
  IF n = 0 THEN {<<>>}
  ELSE LET shorter == Seqs(S, n - 1)
       IN  shorter \cup {Append(s, c) : s \in {t \in shorter : Len(t) = n - 1}, c \in S}

\* Characters of the enumerated inputs: two separators and two letters.
Char == {" ", "\t", "a", "b"}
\* Characters of the inputs of the permutation runs: three letters.
PermChar == {" ", "a", "b", "c"}

IsSepNoLf(c) == c = " " \/ c = "\t" \/ c = "\r"

\* The character class of the default separator (sp's closure).
IsSep(c) == c = " " \/ c = "\t" \/ c = "\r" \/ c = "\n"

Drop(s, n) == SubSeq(s, n + 1, Len(s))
Take(s, n) == SubSeq(s, 1, n)
IsPrefix(p, s) == Len(p) <= Len(s) /\ Take(s, Len(p)) = p

(***************************************************************************)
(* Outcomes and error contexts                                             *)
(***************************************************************************)
NoOutcome == [tag |-> "None", rest |-> <<>>, out |-> <<>>, err |-> <<>>, need |-> 0, calls |-> <<>>]

Ok(rest, out) == [NoOutcome EXCEPT !.tag = "Ok", !.rest = rest, !.out = out]
Error(e)      == [NoOutcome EXCEPT !.tag = "Error", !.err = e]
Failure(e)    == [NoOutcome EXCEPT !.tag = "Failure", !.err = e]
Incomplete(n) == [NoOutcome EXCEPT !.tag = "Incomplete", !.need = n]

\* The outcome without the record of invocations.
Plain(r) == [r EXCEPT !.calls = <<>>]
WithCalls(r, log) == [r EXCEPT !.calls = log]

\* error_position!(i, kind): Context::Code(i, kind).
error_position(at, kind) == << [kind |-> kind, at |-> at] >>

\* error_node_position!(i, kind, next): with verbose-errors the new context is
\* pushed after the nested one; without, the nested one is dropped.
error_node_position(at, kind, next) ==
  IF verbose THEN Append(next, [kind |-> kind, at |-> at])
  ELSE error_position(at, kind)

(***************************************************************************)
(* Primitive parsers supplied by nom                                       *)
(***************************************************************************)
\* need_more: at end of a complete input there is no more to wait for.
need_more(i, n) ==
  IF complete THEN Error(error_position(i, "Eof")) ELSE Incomplete(n)

\* tag!(t)
tag(i, t) ==
  IF Len(i) >= Len(t)
  THEN IF Take(i, Len(t)) = t THEN Ok(Drop(i, Len(t)), t)
       ELSE Error(error_position(i, "Tag"))
  ELSE IF Take(t, Len(i)) = i THEN need_more(i, Len(t))
       ELSE Error(error_position(i, "Tag"))

\* take!(n)
take(i, n) ==
  IF Len(i) < n THEN need_more(i, n) ELSE Ok(Drop(i, n), Take(i, n))

\* A parser function written by the user that gives up for good: Err::Failure.
fatal_fn(i) == Failure(error_position(i, "Custom"))

\* complete!(p): Incomplete becomes a recoverable error at the cursor given.
complete_(i, r) ==
  IF r.tag = "Incomplete" THEN Error(error_position(i, "Complete")) ELSE r

(***************************************************************************)
(* The default separator                                                   *)
(***************************************************************************)
\* sp: input.split_at_position(|c| !(c is ' ', '\t', '\r' or '\n')).  The split
\* is made before the first character that is no separator; when there is no
\* such character a streaming input asks for one more item, and an input that
\* knows it is complete is taken whole.
sp(i) ==
  IF \E n \in 1..Len(i) : ~IsSep(i[n])
  THEN LET n == CHOOSE n \in 1..Len(i) : ~IsSep(i[n]) /\ \A m \in 1..(n - 1) : IsSep(i[m])
       IN  Ok(Drop(i, n - 1), Take(i, n - 1))
  ELSE IF complete THEN Ok(<<>>, i) ELSE Incomplete(1)

(***************************************************************************)
(* Grammar nodes                                                           *)
(***************************************************************************)
Node(kind, tok, n, subs, gens) ==
  [kind |-> kind, tok |-> tok, n |-> n, subs |-> subs, gens |-> gens]

Tag(t)      == Node("tag", t, 0, <<>>, <<>>)
TakeN(n)    == Node("take", <<>>, n, <<>>, <<>>)
FatalFn     == Node("fatal_fn", <<>>, 0, <<>>, <<>>)
Complete(p) == Node("complete", <<>>, 0, <<p>>, <<>>)
Form(kind, subs) == Node(kind, <<>>, 0, subs, <<>>)
\* alt!(p1 => {g1} | p2 => {g2} ...); "none" is a branch without a mapping.
Alt(kind, subs, gens) == Node(kind, <<>>, 0, subs, gens)

\* switch!(sel, pat1 => p1 | pat2 => p2 ...): subs is the selector followed by
\* the branches, gens the patterns (values the selector's output is matched
\* against).
Switch(sel, pats, brs) == Node("switch", <<>>, 0, <<sel>> \o brs, pats)

\* many0!(p), many1!(p).
Many(kind, p) == Node(kind, <<>>, 0, <<p>>, <<>>)

\* do_parse!(p1 >> x: p2 >> ... >> (x, ...)): gens holds for each step the
\* field its value is bound to, "none" for a step without a field; the closing
\* expression is the tuple of the fields.
DoParse(steps, fields) == Node("do_parse", <<>>, 0, steps, fields)

\* The mapping function attached to an alternation branch.
Gen(g, o) == IF g = "none" THEN o ELSE <<g>>

RECURSIVE sep(_, _)
RECURSIVE submac(_, _)
RECURSIVE tuple_sep(_, _, _, _)
RECURSIVE do_parse_sep(_, _, _, _, _)
RECURSIVE alt_sep(_, _, _, _)
RECURSIVE alt_complete_sep(_, _, _, _)
RECURSIVE permutation_iterator_sep(_, _, _)
RECURSIVE nom_submac(_, _)
RECURSIVE many(_, _, _, _, _)
RECURSIVE permutation_loop(_, _)

\* wrap_sep!(i, separator, p): the separator, then p on the cursor it leaves.
wrap_sep(i, p) ==
  LET sep_res == sp(i)
  IN  IF sep_res.tag = "Ok" THEN submac(sep_res.rest, p) ELSE sep_res

\* tuple_sep returning its own error in place of the failed sub-parser's.
tuple_sep_retagged(i, subs, parsed, log) ==
  IF subs = <<>> THEN WithCalls(Ok(i, parsed), log)
  ELSE LET r     == sep(i, Head(subs))
           calls == Append(log, [idx |-> Len(log) + 1, at |-> i])
       IN  IF r.tag # "Ok" THEN WithCalls(Error(error_position(i, "Tuple")), calls)
           ELSE IF Len(subs) = 1
                THEN WithCalls(Ok(r.rest, IF parsed = <<>> THEN r.out
                                          ELSE Append(parsed, r.out)), calls)
                ELSE tuple_sep(r.rest, Tail(subs), Append(parsed, r.out), calls)

\* tuple_sep!(i, separator, (parsed), p, rest...): sep! on each sub-parser in
\* turn, each on the cursor the one before left; the first error ends the fold.
tuple_sep(i, subs, parsed, log) ==
  IF subs = <<>> THEN WithCalls(Ok(i, parsed), log)
  ELSE LET r     == sep(i, Head(subs))
           calls == Append(log, [idx |-> Len(log) + 1, at |-> i])
       IN  IF r.tag # "Ok" THEN WithCalls(r, calls)
           ELSE IF Len(subs) = 1
                THEN WithCalls(Ok(r.rest, IF parsed = <<>> THEN r.out
                                          ELSE Append(parsed, r.out)), calls)
                ELSE tuple_sep(r.rest, Tail(subs), Append(parsed, r.out), calls)

\* do_parse_sep!(__impl i, separator, [field:] p >> rest): sep! on step k at
\* i; its error is returned as it is; on Ok the value is bound to the step's
\* field, if it has one, and the chain goes on at the cursor the step left; the
\* last step is followed by the closing expression.
do_parse_sep(i, p, k, bound, log) ==
  LET r     == sep(i, p.subs[k])
      calls == Append(log, [idx |-> k, at |-> i])
      now   == IF p.gens[k] = "none" THEN bound ELSE Append(bound, r.out)
  IN  IF r.tag # "Ok" THEN WithCalls(r, calls)
      ELSE IF k = Len(p.subs) THEN WithCalls(Ok(r.rest, now), calls)
      ELSE do_parse_sep(r.rest, p, k + 1, now, calls)

\* pair_sep!: nom's tuple! over the two sub-parsers, each rewritten by sep!.
pair_sep(i, subs) == tuple_sep(i, subs, <<>>, <<>>)

\* delimited_sep!: the middle value of three.
delimited_sep(i, subs) ==
  LET r == tuple_sep(i, subs, <<>>, <<>>)
  IN  IF r.tag = "Ok" THEN WithCalls(Ok(r.rest, r.out[2]), r.calls) ELSE r

\* separated_pair_sep!: the first and the third value of three.
separated_pair_sep(i, subs) ==
  LET r == tuple_sep(i, subs, <<>>, <<>>)
  IN  IF r.tag = "Ok" THEN WithCalls(Ok(r.rest, <<r.out[1], r.out[3]>>), r.calls) ELSE r

preceded_sep_first(i, subs) ==
  LET r == pair_sep(i, subs)
  IN  IF r.tag = "Ok" THEN WithCalls(Ok(r.rest, r.out[1]), r.calls) ELSE r

\* preceded_sep!: the second value of a pair.
preceded_sep(i, subs) ==
  LET r == pair_sep(i, subs)
  IN  IF r.tag = "Ok" THEN WithCalls(Ok(r.rest, r.out[2]), r.calls) ELSE r

\* terminated_sep!: the first value of a pair.
terminated_sep(i, subs) ==
  LET r == pair_sep(i, subs)
  IN  IF r.tag = "Ok" THEN WithCalls(Ok(r.rest, r.out[1]), r.calls) ELSE r

\* alt_sep with the next branch started behind the separators the failed
\* branch's wrapper skipped.
alt_sep_leaky(i, p, k, log) ==
  IF k > Len(p.subs) THEN WithCalls(Error(error_position(i, "Alt")), log)
  ELSE LET r     == sep(i, p.subs[k])
           calls == Append(log, [idx |-> k, at |-> i])
       IN  CASE r.tag = "Ok"    -> WithCalls(Ok(r.rest, Gen(p.gens[k], r.out)), calls)
             [] r.tag = "Error" -> IF k < Len(p.subs)
                                   THEN alt_sep(IF sp(i).tag = "Ok" THEN sp(i).rest ELSE i,
                                                p, k + 1, calls)
                                   ELSE WithCalls(Error(error_position(i, "Alt")), calls)
             [] OTHER           -> WithCalls(r, calls)

\* alt_sep going on to the next branch after Incomplete as after Error.
alt_sep_absorbing(i, p, k, log) ==
  IF k > Len(p.subs) THEN WithCalls(Error(error_position(i, "Alt")), log)
  ELSE LET r     == sep(i, p.subs[k])
           calls == Append(log, [idx |-> k, at |-> i])
       IN  CASE r.tag = "Ok" -> WithCalls(Ok(r.rest, Gen(p.gens[k], r.out)), calls)
             [] r.tag \in {"Error", "Incomplete"} ->
                  IF k < Len(p.subs) THEN alt_sep(i, p, k + 1, calls)
                  ELSE WithCalls(Error(error_position(i, "Alt")), calls)
             [] OTHER -> WithCalls(r, calls)

\* alt_sep returning the branch's value without its mapping function.
alt_sep_nogen(i, p, k, log) ==
  IF k > Len(p.subs) THEN WithCalls(Error(error_position(i, "Alt")), log)
  ELSE LET r     == sep(i, p.subs[k])
           calls == Append(log, [idx |-> k, at |-> i])
       IN  CASE r.tag = "Ok"    -> WithCalls(Ok(r.rest, r.out), calls)
             [] r.tag = "Error" -> IF k < Len(p.subs) THEN alt_sep(i, p, k + 1, calls)
                                   ELSE WithCalls(Error(error_position(i, "Alt")), calls)
             [] OTHER           -> WithCalls(r, calls)

\* alt_sep returning the last branch's own error.
alt_sep_lasterr(i, p, k, log) ==
  IF k > Len(p.subs) THEN WithCalls(Error(error_position(i, "Alt")), log)
  ELSE LET r     == sep(i, p.subs[k])
           calls == Append(log, [idx |-> k, at |-> i])
       IN  CASE r.tag = "Ok"    -> WithCalls(Ok(r.rest, Gen(p.gens[k], r.out)), calls)
             [] r.tag = "Error" -> IF k < Len(p.subs) THEN alt_sep(i, p, k + 1, calls)
                                   ELSE WithCalls(r, calls)
             [] OTHER           -> WithCalls(r, calls)

\* alt_sep!(__impl i, separator, branch k | rest): sep! on branch k at the
\* cursor i the alternation was given.  Ok ends it (with the branch's mapping
\* applied), Err::Error goes on to the next branch, again at i, or after the
\* last branch becomes an Alt error at i; any other outcome is returned.
alt_sep(i, p, k, log) ==
  IF k > Len(p.subs) THEN WithCalls(Error(error_position(i, "Alt")), log)
  ELSE LET r     == sep(i, p.subs[k])
           calls == Append(log, [idx |-> k, at |-> i])
       IN  CASE r.tag = "Ok"    -> WithCalls(Ok(r.rest, Gen(p.gens[k], r.out)), calls)
             [] r.tag = "Error" -> IF k < Len(p.subs) THEN alt_sep(i, p, k + 1, calls)
                                   ELSE WithCalls(Error(error_position(i, "Alt")), calls)
             [] OTHER           -> WithCalls(r, calls)

\* alt_complete_sep!: every branch but the last is complete!(sep!(branch)) at
\* i, and anything but Ok goes on to the next branch; the last branch is
\* handed to alt_sep! as complete!(branch).
alt_complete_sep(i, p, k, log) ==
  IF k < Len(p.subs)
  THEN LET r     == complete_(i, sep(i, p.subs[k]))
           calls == Append(log, [idx |-> k, at |-> i])
       IN  IF r.tag = "Ok" THEN WithCalls(Ok(r.rest, Gen(p.gens[k], r.out)), calls)
           ELSE alt_complete_sep(i, p, k + 1, calls)
  ELSE LET r == alt_sep(i, Alt("alt", <<Complete(p.subs[k])>>, <<p.gens[k]>>), 1, <<>>)
       IN  WithCalls(r, Append(log, [idx |-> k, at |-> r.calls[1].at]))

\* Option values.
None    == <<>>
Some(v) == <<v>>

\* permutation_sep!'s locals before the loop: res (one slot per sub-parser),
\* input, error, needed; all_done is set at the start of each pass, flow is how
\* the pass was left ("fall": through its end, "continue", "break"); calls
\* records the attempts.
PermState(i, n) ==
  [ input |-> i, res |-> [k \in 1..n |-> None], all_done |-> TRUE,
    needed |-> None, error |-> None, flow |-> "fall", calls |-> <<>> ]

\* permutation_iterator_sep that goes on with the next slot after filling one.
permutation_iterator_sep_linear(it, subs, st) ==
  IF it > Len(subs) THEN st
  ELSE IF st.res[it] = None
       THEN LET r      == sep(st.input, subs[it])
                logged == [st EXCEPT !.calls = Append(@, [idx |-> it, at |-> st.input])]
            IN  CASE r.tag = "Ok" ->
                       permutation_iterator_sep(it + 1, subs,
                         [logged EXCEPT !.input = r.rest, !.res[it] = Some(r.out)])
                  [] r.tag = "Error" ->
                       permutation_iterator_sep(it + 1, subs,
                                                [logged EXCEPT !.all_done = FALSE])
                  [] OTHER ->
                       [logged EXCEPT !.needed = Some(Plain(r)), !.flow = "break"]
       ELSE permutation_iterator_sep(it + 1, subs, st)

\* permutation_iterator_sep trying the parser of a slot whether the slot is
\* filled or not.
permutation_iterator_sep_refill(it, subs, st) ==
  IF it > Len(subs) THEN st
  ELSE LET r      == sep(st.input, subs[it])
           logged == [st EXCEPT !.calls = Append(@, [idx |-> it, at |-> st.input])]
       IN  CASE r.tag = "Ok" ->
                  [logged EXCEPT !.input = r.rest, !.res[it] = Some(r.out),
                                 !.flow = "continue"]
             [] r.tag = "Error" ->
                  permutation_iterator_sep(it + 1, subs,
                                           [logged EXCEPT !.all_done = FALSE])
             [] OTHER ->
                  [logged EXCEPT !.needed = Some(Plain(r)), !.flow = "break"]

\* permutation_iterator_sep going on with the next slot after Incomplete as
\* after Error.
permutation_iterator_sep_absorbing(it, subs, st) ==
  IF it > Len(subs) THEN st
  ELSE IF st.res[it] = None
       THEN LET r      == sep(st.input, subs[it])
                logged == [st EXCEPT !.calls = Append(@, [idx |-> it, at |-> st.input])]
            IN  CASE r.tag = "Ok" ->
                       [logged EXCEPT !.input = r.rest, !.res[it] = Some(r.out),
                                      !.flow = "continue"]
                  [] r.tag \in {"Error", "Incomplete"} ->
                       permutation_iterator_sep(it + 1, subs,
                                                [logged EXCEPT !.all_done = FALSE])
                  [] OTHER ->
                       [logged EXCEPT !.needed = Some(Plain(r)), !.flow = "break"]
       ELSE permutation_iterator_sep(it + 1, subs, st)

\* permutation_iterator_sep!(it, input, separator, all_done, needed, res,
\* p, rest...): the rest of a pass from slot it on.  An unfilled slot's parser
\* is tried behind sep! at the current input: Ok fills the slot, moves the
\* input and restarts the loop; Err::Error clears all_done and the pass goes
\* on; any other error is kept in needed and the loop is left.
permutation_iterator_sep(it, subs, st) ==
  IF it > Len(subs) THEN st
  ELSE IF st.res[it] = None
       THEN LET r      == sep(st.input, subs[it])
                logged == [st EXCEPT !.calls = Append(@, [idx |-> it, at |-> st.input])]
            IN  CASE r.tag = "Ok" ->
                       [logged EXCEPT !.input = r.rest, !.res[it] = Some(r.out),
                                      !.flow = "continue"]
                  [] r.tag = "Error" ->
                       permutation_iterator_sep(it + 1, subs,
                                                [logged EXCEPT !.all_done = FALSE])
                  [] OTHER ->
                       [logged EXCEPT !.needed = Some(Plain(r)), !.flow = "break"]
       ELSE permutation_iterator_sep(it + 1, subs, st)

\* The loop with one more pass after a pass in which a parser failed and no
\* slot was filled.
permutation_loop_again(subs, st) ==
  LET p == permutation_iterator_sep(1, subs, [st EXCEPT !.all_done = TRUE, !.flow = "fall"])
  IN  CASE p.flow = "continue" -> permutation_loop(subs, p)
        [] p.flow = "break"    -> p
        [] OTHER -> IF ~p.all_done
                    THEN LET q == permutation_iterator_sep(1, subs, p)
                         IN  [q EXCEPT !.error = Some(error_position(q.input, "Permutation"))]
                    ELSE p

\* The loop of permutation_sep!: a pass; continue starts the next pass, break
\* leaves the loop, and a pass that falls through sets error when a parser
\* failed in it and leaves the loop.
permutation_loop(subs, st) ==
  LET p == permutation_iterator_sep(1, subs, [st EXCEPT !.all_done = TRUE, !.flow = "fall"])
  IN  CASE p.flow = "continue" -> permutation_loop(subs, p)
        [] p.flow = "break"    -> p
        [] OTHER -> IF ~p.all_done
                    THEN [p EXCEPT !.error = Some(error_position(p.input, "Permutation"))]
                    ELSE p

\* permutation_sep returning the filled slots' values when some slot stayed
\* unfilled.
permutation_sep_partial(i, subs) ==
  LET st == permutation_loop(subs, PermState(i, Len(subs)))
  IN  WithCalls(
        IF st.needed # None THEN st.needed[1]
        ELSE Ok(st.input, [k \in 1..Len(subs) |-> st.res[k]]),
        st.calls)

\* permutation_sep returning the permutation's own error without the error of
\* the last pass.
permutation_sep_flat(i, subs) ==
  LET st == permutation_loop(subs, PermState(i, Len(subs)))
  IN  WithCalls(
        IF st.needed # None THEN st.needed[1]
        ELSE IF \A k \in 1..Len(subs) : st.res[k] # None
             THEN Ok(st.input, [k \in 1..Len(subs) |-> st.res[k][1]])
             ELSE Error(error_position(i, "Permutation")),
        st.calls)

\* permutation_sep!: the loop, then the result from needed, res and error.
permutation_sep(i, subs) ==
  LET st == permutation_loop(subs, PermState(i, Len(subs)))
  IN  WithCalls(
        IF st.needed # None THEN st.needed[1]
        ELSE IF \A k \in 1..Len(subs) : st.res[k] # None
             THEN Ok(st.input, [k \in 1..Len(subs) |-> st.res[k][1]])
             ELSE IF st.error # None
                  THEN Error(error_node_position(i, "Permutation", st.error[1]))
                  ELSE Error(error_position(i, "Permutation")),
        st.calls)

\* The end of nom's pair!: both values behind the second parser's Ok, the
\* second parser's error otherwise.
nom_pair_join(a, b) ==
  IF b.tag # "Ok" THEN b ELSE Ok(b.rest, <<a.out, b.out>>)

\* nom's pair! behind its first parser: its error is returned, and behind its
\* Ok the second parser runs on the cursor it left.
nom_pair_second(a, p) ==
  IF a.tag # "Ok" THEN a ELSE nom_pair_join(a, nom_submac(a.rest, p.subs[2]))

\* $submac!(i, args) for a parser that sep! has not rewritten: nom's own
\* macro.  For a token parser that is the macro wrap_sep calls; pair! runs its
\* two parsers one behind the other, without separators.
nom_submac(i, p) ==
  CASE p.kind \in {"tag", "take", "fatal_fn"} -> submac(i, p)
    [] p.kind = "pair" -> nom_pair_second(nom_submac(i, p.subs[1]), p)

\* wrap_sep!'s parser behind the separator parser's outcome: the parser on
\* the cursor the separators left, the separator parser's error otherwise.
element_after(sep_res, p) ==
  IF sep_res.tag = "Ok" THEN Plain(nom_submac(sep_res.rest, p)) ELSE sep_res

\* The element of many0!/many1! as sep! writes it: wrap_sep!(separator, args)
\* on the arguments of many0!/many1! as they are.
element(i, p) == element_after(sp(i), p)

\* nom's many0! (kind "many0") and many1! (kind "many1") behind one run r of
\* the element at i, acc holding the values so far.  The first element of
\* many1!: its Error or Failure becomes a Many1 one at i, its Incomplete is
\* returned, and behind its Ok comes the loop.  In the loop Err::Error ends
\* with the values so far and any other error is returned; an Ok that left the
\* cursor where it was ends the loop too: for many1! with the values so far,
\* for many0! with the values so far at the end of the input and with a Many0
\* Error otherwise.
many_step(kind, i, p, acc, calls, r) ==
  CASE r.tag = "Ok" ->
         IF kind = "many0"
         THEN IF r.rest = i
              THEN IF complete THEN WithCalls(Ok(i, acc), calls)
                   ELSE WithCalls(Error(error_position(i, "Many0")), calls)
              ELSE many(kind, r.rest, p, Append(acc, r.out), calls)
         ELSE IF acc # <<>> /\ Len(r.rest) = Len(i)
              THEN WithCalls(Ok(i, acc), calls)
              ELSE many(kind, r.rest, p, Append(acc, r.out), calls)
    [] r.tag = "Error" ->
         IF kind = "many1" /\ acc = <<>>
         THEN WithCalls(Error(error_position(i, "Many1")), calls)
         ELSE WithCalls(Ok(i, acc), calls)
    [] r.tag = "Failure" ->
         IF kind = "many1" /\ acc = <<>>
         THEN WithCalls(Failure(error_position(i, "Many1")), calls)
         ELSE WithCalls(r, calls)
    [] OTHER -> WithCalls(r, calls)

\* nom's many0!(i, element) and many1!(i, element): the element again and
\* again, each time on the cursor the last one left.
many(kind, i, p, acc, log) ==
  many_step(kind, i, p, acc, Append(log, [idx |-> Len(log) + 1, at |-> i]), element(i, p))

\* The arm of `match o { pat1 => .., pat2 => .., _ => .. }` taken for the
\* value o: the first pattern equal to o, 0 for the `_` arm.
MatchArm(pats, o) ==
  IF \E k \in 1..Len(pats) : pats[k] = o
  THEN CHOOSE k \in 1..Len(pats) : pats[k] = o /\ \A j \in 1..(k - 1) : pats[j] # o
  ELSE 0

\* switch_sep with the chosen branch run on the switch's own cursor.
switch_sep_rewound(i, p) ==
  LET s    == sep(i, p.subs[1])
      log1 == <<[idx |-> 0, at |-> i]>>
  IN  CASE s.tag = "Error" ->
             WithCalls(Error(error_node_position(i, "Switch", s.err)), log1)
        [] s.tag = "Failure" ->
             WithCalls(Failure(error_node_position(i, "Switch", s.err)), log1)
        [] s.tag = "Incomplete" -> WithCalls(s, log1)
        [] OTHER ->
             LET k == MatchArm(p.gens, s.out)
             IN  IF k = 0 THEN WithCalls(Error(error_position(i, "Switch")), log1)
                 ELSE LET b    == sep(i, p.subs[k + 1])
                          log2 == Append(log1, [idx |-> k, at |-> i])
                      IN  CASE b.tag = "Error" ->
                                 WithCalls(Error(error_node_position(i, "Switch", b.err)), log2)
                            [] b.tag = "Failure" ->
                                 WithCalls(Failure(error_node_position(i, "Switch", b.err)), log2)
                            [] OTHER -> WithCalls(b, log2)

\* switch_sep with a selector's or branch's Failure returned as Error.
switch_sep_softened(i, p) ==
  LET s    == sep(i, p.subs[1])
      log1 == <<[idx |-> 0, at |-> i]>>
  IN  CASE s.tag \in {"Error", "Failure"} ->
             WithCalls(Error(error_node_position(i, "Switch", s.err)), log1)
        [] s.tag = "Incomplete" -> WithCalls(s, log1)
        [] OTHER ->
             LET k == MatchArm(p.gens, s.out)
             IN  IF k = 0 THEN WithCalls(Error(error_position(i, "Switch")), log1)
                 ELSE LET b    == sep(s.rest, p.subs[k + 1])
                          log2 == Append(log1, [idx |-> k, at |-> s.rest])
                      IN  CASE b.tag \in {"Error", "Failure"} ->
                                 WithCalls(Error(error_node_position(i, "Switch", b.err)), log2)
                            [] OTHER -> WithCalls(b, log2)

\* switch_sep!(__impl i, separator, selector, pat => branch | ...): sep! on
\* the selector at i; its Error or Failure is returned under a Switch context
\* at i, any other error as it is.  On Ok((i1, o)) the arm matching o runs
\* sep! on its branch at i1, again with Error and Failure put under a Switch
\* context at i and anything else returned as it is; the `_` arm is a Switch
\* Error at i.  The log has the selector as sub-parser 0.
switch_sep(i, p) ==
  LET s    == sep(i, p.subs[1])
      log1 == <<[idx |-> 0, at |-> i]>>
  IN  CASE s.tag = "Error" ->
             WithCalls(Error(error_node_position(i, "Switch", s.err)), log1)
        [] s.tag = "Failure" ->
             WithCalls(Failure(error_node_position(i, "Switch", s.err)), log1)
        [] s.tag = "Incomplete" -> WithCalls(s, log1)
        [] OTHER ->
             LET k == MatchArm(p.gens, s.out)
             IN  IF k = 0 THEN WithCalls(Error(error_position(i, "Switch")), log1)
                 ELSE LET b    == sep(s.rest, p.subs[k + 1])
                          log2 == Append(log1, [idx |-> k, at |-> s.rest])
                      IN  CASE b.tag = "Error" ->
                                 WithCalls(Error(error_node_position(i, "Switch", b.err)), log2)
                            [] b.tag = "Failure" ->
                                 WithCalls(Failure(error_node_position(i, "Switch", b.err)), log2)
                            [] OTHER -> WithCalls(b, log2)

\* $submac!(i, args): the parser of a node run at i, as wrap_sep calls it.
submac(i, p) ==
  CASE p.kind = "tag"            -> tag(i, p.tok)
    [] p.kind = "take"           -> take(i, p.n)
    [] p.kind = "fatal_fn"       -> fatal_fn(i)
    [] p.kind = "complete"       -> complete_(i, submac(i, p.subs[1]))
    [] p.kind = "pair"           -> pair_sep(i, p.subs)
    [] p.kind = "delimited"      -> delimited_sep(i, p.subs)
    [] p.kind = "separated_pair" -> separated_pair_sep(i, p.subs)
    [] p.kind = "preceded"       -> preceded_sep(i, p.subs)
    [] p.kind = "terminated"     -> terminated_sep(i, p.subs)
    [] p.kind = "do_parse"       -> do_parse_sep(i, p, 1, <<>>, <<>>)
    [] p.kind = "permutation"    -> permutation_sep(i, p.subs)
    [] p.kind = "switch"         -> switch_sep(i, p)
    [] p.kind = "alt"            -> alt_sep(i, p, 1, <<>>)
    [] p.kind = "alt_complete"   -> alt_complete_sep(i, p, 1, <<>>)

\* sep!(i, separator, p): tuple! goes to tuple_sep as it is, many0! and many1!
\* stay nom's own with their argument put behind the separator, every other
\* parser is put behind the separator by wrap_sep.
sep(i, p) ==
  CASE p.kind = "tuple" -> tuple_sep(i, p.subs, <<>>, <<>>)
    [] p.kind \in {"many0", "many1"} -> many(p.kind, i, p.subs[1], <<>>, <<>>)
    [] OTHER            -> wrap_sep(i, p)

\* ws!(p): sep! with the default separator, then the separator once more.
ws(i, p) ==
  LET r == sep(i, p)
  IN  IF r.tag # "Ok" THEN r
      ELSE LET t == sp(r.rest)
           IN  IF t.tag # "Ok" THEN WithCalls(t, r.calls)
               ELSE WithCalls(Ok(t.rest, r.out), r.calls)

(***************************************************************************)
(* Calls: the wrapper and the sequential forms                             *)
(***************************************************************************)
NoNode == Node("none", <<>>, 0, <<>>, <<>>)

Inputs == Seqs(Char, MaxLen)

Init ==
  /\ input \in Inputs
  /\ complete \in BOOLEAN
  /\ verbose = FALSE
  /\ pc = "ready"
  /\ op = "none"
  /\ gr = NoNode
  /\ res = NoOutcome

\* One call of an entry point on the input.
Call(o, g, r) ==
  /\ pc = "ready"
  /\ pc' = "done"
  /\ op' = o
  /\ gr' = g
  /\ res' = r
  /\ UNCHANGED <<input, complete, verbose>>

\* The token parsers the grammars are built from.
Prims == {Tag(<<"a">>), Tag(<<"b">>), Tag(<<"a", "b">>), TakeN(1), TakeN(2)}
Pairs == { <<TakeN(2), Tag(<<"b">>)>>,
           <<Tag(<<"a">>), Tag(<<"b">>)>>,
           <<Tag(<<"a", "b">>), TakeN(1)>> }
Triples == { <<Tag(<<"a">>), TakeN(1), Tag(<<"b">>)>>,
             <<Tag(<<"b">>), Tag(<<"a">>), Tag(<<"a">>)>> }

CallSp              == Call("sp", NoNode, sp(input))
CallWrapSep         == \E p \in Prims : Call("wrap_sep", p, wrap_sep(input, p))
CallWs              == \E p \in Prims : Call("ws", p, ws(input, p))
CallWsTuple         == \E ps \in Pairs \cup Triples :
                          Call("ws", Form("tuple", ps), ws(input, Form("tuple", ps)))
CallWsPair          == \E ps \in Pairs :
                          Call("ws", Form("pair", ps), ws(input, Form("pair", ps)))
CallWsPreceded      == \E ps \in Pairs :
                          Call("ws", Form("preceded", ps), ws(input, Form("preceded", ps)))
CallWsTerminated    == \E ps \in Pairs :
                          Call("ws", Form("terminated", ps), ws(input, Form("terminated", ps)))
CallWsDelimited     == \E ps \in Triples :
                          Call("ws", Form("delimited", ps), ws(input, Form("delimited", ps)))
CallWsSeparatedPair == \E ps \in Triples :
                          Call("ws", Form("separated_pair", ps),
                               ws(input, Form("separated_pair", ps)))

\* The separator, the wrapper and ws! on token parsers and on tuple!.
Next ==
  \/ CallSp
  \/ CallWrapSep
  \/ CallWs
  \/ CallWsTuple

Spec == Init /\ [][Next]_vars

\* ws! on the sequential forms.
NextSeq ==
  \/ CallWsTuple
  \/ CallWsPair
  \/ CallWsPreceded
  \/ CallWsTerminated
  \/ CallWsDelimited
  \/ CallWsSeparatedPair

SpecSeq == Init /\ [][NextSeq]_vars

(***************************************************************************)
(* Properties of the wrapper and the sequential forms                      *)
(***************************************************************************)
SeqKinds == {"tuple", "pair", "preceded", "terminated", "delimited", "separated_pair"}
PrimKinds == {"tag", "take"}

\* Runs of the separators of Char, as long as an input can be.
AllSepRuns == Seqs({c \in Char : IsSep(c)}, MaxLen + 1)
\* Separator texts over the whole separator class, to put in front of an input.
SepTexts == Seqs({" ", "\t", "\r", "\n"}, MaxSep)

\* The texts p accepts that j starts with (a token does not begin with a
\* separator: the run before it has taken them all).
Accepted(p, j) ==
  IF p.kind = "tag" THEN {t \in {p.tok} : IsPrefix(t, j)}
  ELSE IF Len(j) >= p.n /\ (p.n > 0 => ~IsSep(j[1])) THEN {Take(j, p.n)} ELSE {}

RECURSIVE Shapes(_, _)
\* The ways to read i as S0 t1 S1 ... tn Sn R, with ti accepted by ps[i], the
\* Si separator runs and R non-empty and not starting with a separator.
Shapes(i, ps) ==
  LET runs == {S \in AllSepRuns : IsPrefix(S, i)}
  IN  IF ps = <<>>
      THEN { [toks |-> <<>>, rest |-> Drop(i, Len(S))] :
               S \in {S \in runs : Len(S) < Len(i) /\ ~IsSep(i[Len(S) + 1])} }
      ELSE UNION { UNION { { [toks |-> <<t>> \o d.toks, rest |-> d.rest] :
                             d \in Shapes(Drop(i, Len(S) + Len(t)), Tail(ps)) } :
                           t \in Accepted(Head(ps), Drop(i, Len(S))) } :
                   S \in runs }

\* What each sequential form keeps of the values (t1, ..., tn).
Projection(kind, toks) ==
  CASE kind \in {"tuple", "pair"}  -> toks
    [] kind = "preceded"           -> toks[2]
    [] kind = "terminated"         -> toks[1]
    [] kind = "delimited"          -> toks[2]
    [] kind = "separated_pair"     -> <<toks[1], toks[3]>>

C3_SpAlwaysSucceeds ==
  (pc = "done" /\ op = "sp") =>
    /\ res.tag = "Ok"
    /\ res.out \o res.rest = input
    /\ \A n \in 1..Len(res.out) : IsSep(res.out[n])
    /\ res.rest # <<>> => ~IsSep(res.rest[1])

\* C4: when p succeeds on the cursor behind the leading separators of i,
\* wrap_sep(sp, p)(i) and ws!(p)(i) succeed with p's value.
C4_WrappingKeepsSuccess ==
  (pc = "done" /\ op \in {"wrap_sep", "ws"} /\ gr.kind \in PrimKinds) =>
    \A S \in AllSepRuns :
      LET x == Drop(input, Len(S))
      IN  ( /\ IsPrefix(S, input)
            /\ x # <<>> => ~IsSep(x[1])
            /\ submac(x, gr).tag = "Ok" )
          => (res.tag = "Ok" /\ res.out = submac(x, gr).out)

(***************************************************************************)
(* Calls: alternation                                                      *)
(***************************************************************************)
\* Branch lists, each branch with its mapping function ("none": no mapping).
AltBranches ==
  { [subs |-> <<Tag(<<"a", "b">>), Tag(<<"a">>)>>,    gens |-> <<"none", "none">>],
    [subs |-> <<Tag(<<"a">>), Tag(<<"b">>)>>,          gens |-> <<"false", "true">>],
    [subs |-> <<Tag(<<"a">>), Tag(<<"a", "b">>)>>,    gens |-> <<"first", "none">>],
    [subs |-> <<FatalFn, Tag(<<"b">>)>>,               gens |-> <<"none", "none">>],
    [subs |-> <<Tag(<<"b">>), Tag(<<"a", "b">>), Tag(<<"a">>)>>,
                                                       gens |-> <<"none", "none", "none">>],
    [subs |-> <<Tag(<<"a">>), TakeN(2), FatalFn>>,     gens |-> <<"none", "none", "none">>] }

CallAltSep ==
  \E b \in AltBranches :
    Call("direct", Alt("alt", b.subs, b.gens), submac(input, Alt("alt", b.subs, b.gens)))
CallWsAlt ==
  \E b \in AltBranches :
    Call("ws", Alt("alt", b.subs, b.gens), ws(input, Alt("alt", b.subs, b.gens)))
CallAltCompleteSep ==
  \E b \in AltBranches :
    Call("direct", Alt("alt_complete", b.subs, b.gens),
         submac(input, Alt("alt_complete", b.subs, b.gens)))
CallWsAltComplete ==
  \E b \in AltBranches :
    Call("ws", Alt("alt_complete", b.subs, b.gens),
         ws(input, Alt("alt_complete", b.subs, b.gens)))

NextAlt ==
  \/ CallAltSep
  \/ CallWsAlt
  \/ CallAltCompleteSep
  \/ CallWsAltComplete

SpecAlt == Init /\ [][NextAlt]_vars

(***************************************************************************)
(* Properties of alternation                                               *)
(***************************************************************************)
\* Branch k of the alternation called, run on its own at cursor x.
Branch(k, x) == sep(x, gr.subs[k])
Branches == 1..Len(gr.subs)
AltSepCalled == pc = "done" /\ op = "direct" /\ gr.kind = "alt"

\* The cursors an alternation under ws! can be entered with: the input behind
\* its leading separators.  Called directly it is entered with the input.
EntryCursors ==
  IF op = "direct" THEN {input}
  ELSE { Drop(input, Len(S)) :
           S \in {S \in AllSepRuns : /\ IsPrefix(S, input)
                                     /\ Len(S) < Len(input) => ~IsSep(input[Len(S) + 1])} }

\* C5: every branch alt_sep attempts is attempted at the cursor the
\* alternation was entered with, in declaration order.
C5_BranchesFromEntryCursor ==
  (pc = "done" /\ op \in {"direct", "ws"} /\ gr.kind = "alt") =>
    \A x \in EntryCursors :
      \A k \in 1..Len(res.calls) : res.calls[k] = [idx |-> k, at |-> x]

\* The first branch failed behind separators its wrapper skipped, and the
\* second branch was attempted.
C5_Witness ==
  /\ AltSepCalled
  /\ input # <<>> /\ IsSep(input[1])
  /\ Branch(1, input).tag = "Error"
  /\ Branch(1, input).err[1].at # input
  /\ Len(res.calls) >= 2

\* C6: the first branch of alt_sep that returns Incomplete or Failure, all
\* branches before it having returned Error, ends the alternation with that
\* outcome; no later branch is attempted.
C6_ShortCircuit ==
  AltSepCalled =>
    \A k \in Branches :
      ( /\ \A j \in 1..(k - 1) : Branch(j, input).tag = "Error"
        /\ Branch(k, input).tag \in {"Incomplete", "Failure"} )
      => (Plain(res) = Plain(Branch(k, input)) /\ Len(res.calls) = k)

\* A branch returned Incomplete and a later branch succeeds on the same input.
C6_Witness ==
  /\ AltSepCalled
  /\ \E k \in Branches :
       /\ \A j \in 1..(k - 1) : Branch(j, input).tag = "Error"
       /\ Branch(k, input).tag = "Incomplete"
       /\ \E m \in (k + 1)..Len(gr.subs) : Branch(m, input).tag = "Ok"

\* C7: alt_sep returns the Success of the earliest branch that succeeds (the
\* branches before it having failed recoverably), its value passed through
\* the branch's mapping function, and attempts no branch after it; a Success
\* it returns is never that of a later branch.
C7_FirstMatchWins ==
  AltSepCalled =>
    /\ \A k \in Branches :
         ( /\ \A j \in 1..(k - 1) : Branch(j, input).tag = "Error"
           /\ Branch(k, input).tag = "Ok" )
         => /\ Plain(res) = Ok(Branch(k, input).rest, Gen(gr.gens[k], Branch(k, input).out))
            /\ Len(res.calls) = k
    /\ res.tag = "Ok" =>
         \E k \in Branches :
           /\ \A j \in 1..(k - 1) : Branch(j, input).tag # "Ok"
           /\ Branch(k, input).tag = "Ok"
           /\ Plain(res) = Ok(Branch(k, input).rest, Gen(gr.gens[k], Branch(k, input).out))
           /\ Len(res.calls) = k

\* The first branch won with a mapped value although the second succeeds too.
C7_Witness ==
  /\ AltSepCalled
  /\ res.tag = "Ok" /\ Len(res.calls) = 1
  /\ gr.gens[1] # "none"
  /\ Branch(2, input).tag = "Ok"
  /\ Branch(2, input).out # Branch(1, input).out

\* C8: when every branch fails recoverably, the result is one recoverable
\* error of kind Alt at the cursor the alternation was entered with.
C8_AllFailErrorAtEntry ==
  (pc = "done" /\ op \in {"direct", "ws"} /\ gr.kind = "alt") =>
    \A x \in EntryCursors :
      (\A k \in Branches : Branch(k, x).tag = "Error")
      => Plain(res) = Error(error_position(x, "Alt"))

\* Called behind separators, every branch failed, the last of them at another
\* position than the one the alternation reports.
C8_Witness ==
  /\ AltSepCalled
  /\ input # <<>> /\ IsSep(input[1])
  /\ \A k \in Branches : Branch(k, input).tag = "Error"
  /\ res.tag = "Error"
  /\ Branch(Len(gr.subs), input).err[1].at # res.err[1].at

\* C9: in alt_complete_sep the first branch that returns neither Error nor
\* Incomplete decides: a Success is returned (mapped), and a Failure is
\* returned as Failure, with no later branch attempted.
C9_AltCompleteAbsorbsOnlyIncomplete ==
  (pc = "done" /\ op = "direct" /\ gr.kind = "alt_complete") =>
    \A k \in Branches :
      (\A j \in 1..(k - 1) : Branch(j, input).tag \in {"Error", "Incomplete"})
      => /\ Branch(k, input).tag = "Failure"
              => (Plain(res) = Plain(Branch(k, input)) /\ Len(res.calls) = k)
         /\ Branch(k, input).tag = "Ok"
              => /\ Plain(res) = Ok(Branch(k, input).rest,
                                    Gen(gr.gens[k], Branch(k, input).out))
                 /\ Len(res.calls) = k

(***************************************************************************)
(* Calls: permutation                                                      *)
(***************************************************************************)
InitPerm ==
  /\ input \in Seqs(PermChar, MaxLen)
  /\ complete \in BOOLEAN
  /\ verbose \in BOOLEAN
  /\ pc = "ready"
  /\ op = "none"
  /\ gr = NoNode
  /\ res = NoOutcome

\* The sub-parser lists of the permutations called.
PermLists ==
  { <<Tag(<<"a">>), Tag(<<"b">>), Tag(<<"c">>)>>,
    <<Tag(<<"b", "c">>), Tag(<<"a">>)>>,
    <<Tag(<<"a">>), Tag(<<"a", "b">>)>>,
    <<Tag(<<"a">>), FatalFn, Tag(<<"b">>)>> }

CallPermutationSep ==
  \E ps \in PermLists :
    Call("direct", Form("permutation", ps), submac(input, Form("permutation", ps)))
CallWsPermutation ==
  \E ps \in PermLists :
    Call("ws", Form("permutation", ps), ws(input, Form("permutation", ps)))

NextPerm ==
  \/ CallPermutationSep
  \/ CallWsPermutation

SpecPerm == InitPerm /\ [][NextPerm]_vars

(***************************************************************************)
(* Properties of permutation                                               *)
(***************************************************************************)
PermutationSepCalled == pc = "done" /\ op = "direct" /\ gr.kind = "permutation"

\* The tokens of the permutation called, in declaration order.
Tokens == [k \in 1..Len(gr.subs) |-> gr.subs[k].tok]
\* The orders the tokens can appear in.
Orders == {f \in [1..Len(gr.subs) -> 1..Len(gr.subs)] :
             \A j, k \in 1..Len(gr.subs) : f[j] = f[k] => j = k}
PermSepRuns == Seqs({c \in PermChar : IsSep(c)}, MaxLen + 1)

RECURSIVE FollowedBy(_, _)
\* The texts R for which i is S1 t1 S2 t2 ... Sn tn R, the ti being toks, the
\* Si separator runs, R non-empty.
FollowedBy(i, toks) ==
  IF toks = <<>> THEN IF i # <<>> THEN {i} ELSE {}
  ELSE UNION { IF IsPrefix(Head(toks), Drop(i, Len(S)))
               THEN FollowedBy(Drop(i, Len(S) + Len(Head(toks))), Tail(toks))
               ELSE {} :
               S \in {S \in PermSepRuns : IsPrefix(S, i)} }

\* Every sub-parser matches a token.
TokenParsers == \A k \in 1..Len(gr.subs) : gr.subs[k].kind = "tag"
DistinctTokens ==
  /\ TokenParsers
  /\ \A j, k \in 1..Len(gr.subs) : Tokens[j] = Tokens[k] => j = k
\* No token begins with a separator or is a prefix of another token.
PrefixFreeTokens ==
  /\ \A k \in 1..Len(gr.subs) : Tokens[k] # <<>> /\ ~IsSep(Tokens[k][1])
  /\ \A j, k \in 1..Len(gr.subs) : j # k => ~IsPrefix(Tokens[j], Tokens[k])

\* The input holds the tokens in some order and the permutation returned the
\* tokens in declaration order and what follows the last token.
OrderIndependent ==
  \A ord \in Orders :
    \A R \in FollowedBy(input, [k \in 1..Len(gr.subs) |-> Tokens[ord[k]]]) :
      Plain(res) = Ok(R, Tokens)

\* C10 (as claimed): for sub-parsers matching distinct tokens, whatever the
\* order of the tokens in the input, the permutation succeeds with the tokens
\* in declaration order and the input after the last token.
C10_OrderIndependentDistinct ==
  (PermutationSepCalled /\ DistinctTokens) => OrderIndependent

\* C10 (amended): the same for distinct tokens none of which begins with a
\* separator or is a prefix of another.
C10_OrderIndependentPrefixFree ==
  (PermutationSepCalled /\ DistinctTokens /\ PrefixFreeTokens) => OrderIndependent

\* Three tokens met in the reverse of their declaration order, a separator
\* behind the first of them.
C10_Witness ==
  /\ PermutationSepCalled /\ Len(gr.subs) = 3 /\ PrefixFreeTokens
  /\ FollowedBy(input, <<Tokens[3], Tokens[2], Tokens[1]>>) # {}
  /\ IsSep(input[Len(Tokens[3]) + 1])
  /\ res.tag = "Ok"

PermutationCalled == pc = "done" /\ gr.kind = "permutation"
TokenPermutationCalled == PermutationCalled /\ TokenParsers

\* i behind its leading separators.
AfterSeparators(i) ==
  IF \E n \in 1..Len(i) : ~IsSep(i[n])
  THEN Drop(i, (CHOOSE n \in 1..Len(i) :
                  ~IsSep(i[n]) /\ \A m \in 1..(n - 1) : IsSep(i[m])) - 1)
  ELSE <<>>

RECURSIVE Rests(_, _)
\* The texts R, empty or not, for which i is S1 t1 S2 t2 ... Sn tn R.
Rests(i, toks) ==
  IF toks = <<>> THEN {i}
  ELSE UNION { IF IsPrefix(Head(toks), Drop(i, Len(S)))
               THEN Rests(Drop(i, Len(S) + Len(Head(toks))), Tail(toks))
               ELSE {} :
               S \in {S \in PermSepRuns : IsPrefix(S, i)} }

\* The orders the tokens other than token m can appear in.
OrdersWithout(m) ==
  {f \in [1..(Len(gr.subs) - 1) -> (1..Len(gr.subs)) \ {m}] :
     \A j, k \in 1..(Len(gr.subs) - 1) : f[j] = f[k] => j = k}

\* What follows the tokens when the input holds all tokens but token m, in
\* some order, and then something that does not start with token m.
RestsWithout(m) ==
  { R \in UNION { Rests(input, [k \in 1..(Len(gr.subs) - 1) |-> Tokens[f[k]]]) :
                  f \in OrdersWithout(m) } :
      ~IsPrefix(Tokens[m], AfterSeparators(R)) }

\* The input does not hold all the tokens in any order.
NotAllTokens ==
  \A ord \in Orders : Rests(input, [k \in 1..Len(gr.subs) |-> Tokens[ord[k]]]) = {}

Attempt(n) == sep(res.calls[n].at, gr.subs[res.calls[n].idx])

\* C12: an attempt on a slot that returns Incomplete or Failure is the last
\* attempt of the permutation (no later slot, no further pass), and the
\* permutation returns that outcome as it is, without any slot's value.
C12_IncompleteOrFailureAborts ==
  PermutationCalled =>
    \A n \in 1..Len(res.calls) :
      Attempt(n).tag \in {"Incomplete", "Failure"}
      => (n = Len(res.calls) /\ Plain(res) = Plain(Attempt(n)))

\* A slot was filled, then the attempt on the second slot failed fatally and
\* the third slot, still unfilled, was not attempted after it.
C12_Witness ==
  /\ PermutationSepCalled /\ Len(gr.subs) = 3
  /\ Len(res.calls) > 1
  /\ \E n \in 1..(Len(res.calls) - 1) : Attempt(n).tag = "Ok" /\ res.calls[n].idx = 1
  /\ res.calls[Len(res.calls)].idx = 2
  /\ \A n \in 1..Len(res.calls) : res.calls[n].idx # 3
  /\ Attempt(Len(res.calls)).tag = "Failure"
  /\ res.tag = "Failure"

\* A slot was filled, then the attempt on another slot needed two more
\* characters.
C12_WitnessIncomplete ==
  /\ PermutationSepCalled
  /\ \E n \in 1..Len(res.calls) : Attempt(n).tag = "Ok"
  /\ res.tag = "Incomplete" /\ res.need = 2

\* The cursor the permutation was entered with: under ws! the wrapper has
\* skipped the leading separators.
PermEntry == IF op = "ws" THEN AfterSeparators(input) ELSE input

\* The attempts that filled a slot.
Fills == {n \in 1..Len(res.calls) : Attempt(n).tag = "Ok"}

\* The cursor right behind the token of the last filled slot, or the entry
\* cursor when no slot was filled.
LastFillCursor ==
  IF Fills = {} THEN PermEntry
  ELSE LET n == CHOOSE n \in Fills : \A m \in Fills : m <= n
       IN  Drop(AfterSeparators(res.calls[n].at), Len(Tokens[res.calls[n].idx]))

\* C13 (as claimed): a permutation that fails returns a Permutation error at
\* its entry cursor nesting a Permutation error at the cursor right behind the
\* last filled slot.
C13_ErrorNestsLastPass ==
  (TokenPermutationCalled /\ res.tag = "Error") =>
    res.err = << [kind |-> "Permutation", at |-> LastFillCursor],
                 [kind |-> "Permutation", at |-> PermEntry] >>

\* C13 (amended): the same when error contexts are lists (verbose-errors);
\* otherwise the error is the Permutation error at the entry cursor alone.
C13_ErrorNestsLastPassIfVerbose ==
  (TokenPermutationCalled /\ res.tag = "Error") =>
    res.err = IF verbose
              THEN << [kind |-> "Permutation", at |-> LastFillCursor],
                      [kind |-> "Permutation", at |-> PermEntry] >>
              ELSE << [kind |-> "Permutation", at |-> PermEntry] >>

\* With list contexts: a slot was filled and the inner error is at the
\* separators behind its token, not at the entry cursor.
C13_Witness ==
  /\ TokenPermutationCalled /\ verbose /\ res.tag = "Error"
  /\ Fills # {}
  /\ Len(res.err) = 2
  /\ res.err[1].at # <<>> /\ IsSep(res.err[1].at[1])
  /\ res.err[1].at # res.err[2].at

(***************************************************************************)
(* Calls: switch                                                           *)
(***************************************************************************)
InitSwitch ==
  /\ input \in Inputs
  /\ complete \in BOOLEAN
  /\ verbose \in BOOLEAN
  /\ pc = "ready"
  /\ op = "none"
  /\ gr = NoNode
  /\ res = NoOutcome

\* The switches called.
Switches ==
  { Switch(TakeN(1), << <<"a">>, <<"b">> >>, <<TakeN(1), Tag(<<"a", "b">>)>>),
    Switch(TakeN(1), << <<"a">>, <<"a">> >>, <<Tag(<<"b">>), TakeN(1)>>),
    Switch(Tag(<<"a">>), << <<"a">>, <<"b">> >>, <<FatalFn, TakeN(1)>>),
    Switch(FatalFn, << <<"a">> >>, <<TakeN(1)>>) }

CallSwitchSep == \E p \in Switches : Call("direct", p, submac(input, p))
CallWsSwitch  == \E p \in Switches : Call("ws", p, ws(input, p))

NextSwitch ==
  \/ CallSwitchSep
  \/ CallWsSwitch

SpecSwitch == InitSwitch /\ [][NextSwitch]_vars

(***************************************************************************)
(* Properties of switch                                                    *)
(***************************************************************************)
SwitchSepCalled == pc = "done" /\ op = "direct" /\ gr.kind = "switch"

\* The selector's outcome at the switch's cursor, the arm its value selects
\* and that arm's branch behind the selector.
Selector      == sep(input, gr.subs[1])
SelectedArm   == MatchArm(gr.gens, Selector.out)
SelectedBranch == sep(Selector.rest, gr.subs[SelectedArm + 1])

\* C14: when the selector succeeds, only the branch of the first pattern equal
\* to its value runs, behind the separator, on the cursor the selector left,
\* and its value and remaining input are returned; when no pattern equals the
\* value no branch runs and the result is a Switch Error at the cursor the
\* switch started on.
C14_SwitchDispatch ==
  (SwitchSepCalled /\ Selector.tag = "Ok") =>
    IF SelectedArm = 0
    THEN /\ Plain(res) = Error(<< [kind |-> "Switch", at |-> input] >>)
         /\ res.calls = << [idx |-> 0, at |-> input] >>
    ELSE /\ res.calls = << [idx |-> 0, at |-> input],
                          [idx |-> SelectedArm, at |-> Selector.rest] >>
         /\ \A j \in 1..(SelectedArm - 1) : gr.gens[j] # Selector.out
         /\ SelectedBranch.tag = "Ok"
              => Plain(res) = Ok(SelectedBranch.rest, SelectedBranch.out)

\* The second arm was selected and its branch matched behind separators.
C14_Witness ==
  /\ SwitchSepCalled /\ Selector.tag = "Ok"
  /\ SelectedArm = 2
  /\ Selector.rest # <<>> /\ IsSep(Selector.rest[1])
  /\ res.tag = "Ok" /\ res.out = <<"a", "b">>

\* No pattern equals the selector's value and the Switch Error is not at the
\* cursor the selector left.
C14_WitnessNoArm ==
  /\ SwitchSepCalled /\ Selector.tag = "Ok" /\ SelectedArm = 0
  /\ res.tag = "Error" /\ res.err[1].at # Selector.rest

\* Two patterns equal the selector's value and the first one's branch ran.
C14_WitnessFirstArm ==
  /\ SwitchSepCalled /\ Selector.tag = "Ok" /\ SelectedArm = 1
  /\ gr.gens[2] = Selector.out
  /\ res.tag = "Ok"

\* The Switch context at the cursor the switch started on.
SwitchContext == [kind |-> "Switch", at |-> input]

\* What the switch returns for the outcome r of its selector or of the chosen
\* branch when r is not Ok and every cause is kept: Error and Failure keep
\* their kind and get the Switch context on top of their own, Incomplete is
\* returned as it is.
Retagged(r) ==
  CASE r.tag = "Error"   -> Error(Append(r.err, SwitchContext))
    [] r.tag = "Failure" -> Failure(Append(r.err, SwitchContext))
    [] OTHER             -> Plain(r)

\* The same when contexts hold one error only: the Switch context replaces the
\* cause.
RetaggedFlat(r) ==
  CASE r.tag = "Error"   -> Error(<<SwitchContext>>)
    [] r.tag = "Failure" -> Failure(<<SwitchContext>>)
    [] OTHER             -> Plain(r)

\* The stage of the switch that did not succeed, if any: the selector, or the
\* chosen branch.
FailedStage ==
  IF Selector.tag # "Ok" THEN Selector
  ELSE IF SelectedArm # 0 /\ SelectedBranch.tag # "Ok" THEN SelectedBranch
  ELSE NoOutcome

\* C17 (as claimed): an Error or Failure of the selector or of the chosen
\* branch is returned with its kind, as a Switch error at the switch's cursor
\* nesting the original error; an Incomplete is returned unchanged.
C17_SwitchKeepsKindAndCause ==
  (SwitchSepCalled /\ FailedStage.tag # "None") => Plain(res) = Retagged(FailedStage)

\* C17 (amended): the kind is always kept and an Incomplete returned unchanged;
\* the original error is nested under the Switch error when error contexts are
\* lists (verbose-errors) and replaced by it otherwise.
C17_SwitchKeepsKind ==
  (SwitchSepCalled /\ FailedStage.tag # "None") =>
    Plain(res) = IF verbose THEN Retagged(FailedStage) ELSE RetaggedFlat(FailedStage)

\* With list contexts, the chosen branch failed fatally behind the selector and
\* the switch returned a Failure nesting the branch's error.
C17_Witness ==
  /\ SwitchSepCalled /\ verbose
  /\ Selector.tag = "Ok" /\ SelectedArm # 0 /\ SelectedBranch.tag = "Failure"
  /\ res.tag = "Failure" /\ Len(res.err) = 2
  /\ res.err[1].kind = "Custom" /\ res.err[1].at # input

\* The selector needed more input and the switch returned that.
C17_WitnessIncomplete ==
  /\ SwitchSepCalled /\ input # <<>> /\ Selector.tag = "Incomplete"
  /\ res.tag = "Incomplete"

(***************************************************************************)
(* Calls: sequences with failing steps                                     *)
(***************************************************************************)
\* The step lists of the sequences called.
StepLists ==
  { <<Tag(<<"a">>), Tag(<<"a", "b">>), Tag(<<"b">>)>>,
    <<TakeN(1), FatalFn, Tag(<<"a">>)>>,
    <<Tag(<<"b">>), TakeN(2), Tag(<<"a">>)>> }
\* The fields of the do_parse chains called.
FieldLists == { <<"none", "x", "none">>, <<"x", "none", "y">> }

CallTupleSep ==
  \E st \in StepLists : Call("direct", Form("tuple", st), sep(input, Form("tuple", st)))
CallDelimitedSep ==
  \E st \in StepLists :
    Call("direct", Form("delimited", st), submac(input, Form("delimited", st)))
CallDoParseSep ==
  \E st \in StepLists, fs \in FieldLists :
    Call("direct", DoParse(st, fs), submac(input, DoParse(st, fs)))
CallWsDoParse ==
  \E st \in StepLists, fs \in FieldLists :
    Call("ws", DoParse(st, fs), ws(input, DoParse(st, fs)))

NextSteps ==
  \/ CallTupleSep
  \/ CallDelimitedSep
  \/ CallDoParseSep
  \/ CallWsDoParse

SpecSteps == Init /\ [][NextSteps]_vars

(***************************************************************************)
(* Properties of sequences with failing steps                              *)
(***************************************************************************)
\* A sequence was called and reached its first step: under ws! the wrapper's
\* separator succeeded.
SequenceCalled ==
  /\ pc = "done" /\ gr.kind \in {"tuple", "delimited", "do_parse"}
  /\ op = "ws" => sp(input).tag = "Ok"

\* The cursor of the first step.
SeqEntry == IF op = "ws" THEN AfterSeparators(input) ELSE input

RECURSIVE StepCursor(_)
\* The cursor step k starts on when the steps before it succeeded.
StepCursor(k) ==
  IF k = 1 THEN SeqEntry ELSE sep(StepCursor(k - 1), gr.subs[k - 1]).rest

StepOutcome(k) == sep(StepCursor(k), gr.subs[k])

\* The first step that does not succeed, if any.
FailingSteps ==
  {k \in 1..Len(gr.subs) :
     StepOutcome(k).tag # "Ok" /\ \A j \in 1..(k - 1) : StepOutcome(j).tag = "Ok"}

\* C15: when step k of a sequence is the first not to succeed, the steps 1..k
\* are the only ones invoked and the sequence returns step k's outcome as it
\* is: kind, error context and needed hint, and no value.
C15_SequenceAborts ==
  SequenceCalled =>
    \A k \in FailingSteps :
      /\ Plain(res) = Plain(StepOutcome(k))
      /\ Len(res.calls) = k
      /\ \A n \in 1..k : res.calls[n] = [idx |-> n, at |-> StepCursor(n)]

\* Under ws!, a do_parse chain whose first step matched and whose second step,
\* a tag, needed two characters more.
C15_Witness ==
  /\ SequenceCalled /\ op = "ws" /\ gr.kind = "do_parse"
  /\ FailingSteps = {2} /\ gr.subs[2].kind = "tag"
  /\ IsSep(input[1])
  /\ res.tag = "Incomplete" /\ res.need = 2

\* A tuple whose second step failed fatally behind a first step that matched.
C15_WitnessFailure ==
  /\ SequenceCalled /\ gr.kind = "tuple" /\ FailingSteps = {2}
  /\ res.tag = "Failure"

(***************************************************************************)
(* Calls: repetition                                                       *)
(***************************************************************************)
\* The element parsers of the repetitions called.
Elements ==
  { TakeN(0), Tag(<<"a">>), Tag(<<"a", "b">>),
    Form("pair", <<Tag(<<"a">>), Tag(<<"b">>)>>) }

CallMany0   == \E e \in Elements : Call("sep", Many("many0", e), sep(input, Many("many0", e)))
CallMany1   == \E e \in Elements : Call("sep", Many("many1", e), sep(input, Many("many1", e)))
CallWsMany0 == \E e \in Elements : Call("ws", Many("many0", e), ws(input, Many("many0", e)))
CallWsMany1 == \E e \in Elements : Call("ws", Many("many1", e), ws(input, Many("many1", e)))

NextMany ==
  \/ CallMany0
  \/ CallMany1
  \/ CallWsMany0
  \/ CallWsMany1

SpecMany == Init /\ [][NextMany]_vars

(***************************************************************************)
(* Properties of repetition                                                *)
(***************************************************************************)
ManyCalled == pc = "done" /\ op = "sep" /\ gr.kind \in {"many0", "many1"}

\* In iteration n the element parser, behind the separator, succeeded without
\* consuming anything.
ZeroConsumption(n) ==
  LET s == sp(res.calls[n].at)
  IN  /\ s.tag = "Ok"
      /\ nom_submac(s.rest, gr.subs[1]).tag = "Ok"
      /\ nom_submac(s.rest, gr.subs[1]).rest = s.rest

\* C16: a repetition makes at most two iterations more than the input has
\* characters, and when in some iteration the element parser succeeds without
\* consuming, be it behind separators the wrapper consumed, the repetition
\* returns a Failure.
C16_ZeroConsumptionIsFailure ==
  ManyCalled =>
    /\ Len(res.calls) <= Len(input) + 2
    /\ \A n \in 1..Len(res.calls) : ZeroConsumption(n) => res.tag = "Failure"

\* The repetition ends within two iterations more than the input has
\* characters.
ManyTerminates == ManyCalled => Len(res.calls) <= Len(input) + 2

\* An iteration in which the wrapper consumed separators and the element
\* nothing was counted as an element, and the repetition succeeded.
ManyCollectsEmpty ==
  /\ ManyCalled /\ gr.kind = "many0"
  /\ \E n \in 1..Len(res.calls) :
       ZeroConsumption(n) /\ sp(res.calls[n].at).rest # res.calls[n].at
  /\ res.tag = "Ok" /\ res.out # <<>>

(***************************************************************************)
(* Calls: nested composites                                                *)
(***************************************************************************)
\* A pair and a tuple of two one-character tokens, and the composites they
\* are nested in.
InnerPair  == Form("pair", <<Tag(<<"a">>), Tag(<<"b">>)>>)
InnerTuple == Form("tuple", <<Tag(<<"a">>), Tag(<<"b">>)>>)
Nests ==
  { Form("pair", <<TakeN(1), InnerTuple>>),
    Form("tuple", <<InnerPair, Tag(<<"a">>)>>),
    Form("delimited", <<Tag(<<"b">>), InnerPair, Tag(<<"b">>)>>),
    DoParse(<<Tag(<<"b">>), InnerPair>>, <<"none", "x">>),
    Alt("alt", <<InnerPair, Tag(<<"b">>)>>, <<"none", "none">>),
    Form("permutation", <<Tag(<<"b">>), InnerPair>>),
    Switch(TakeN(1), << <<"a">> >>, <<InnerPair>>) }
ManyNests == { Many("many0", InnerPair), Many("many1", InnerPair) }

CallNest     == \E p \in Nests : Call("sep", p, sep(input, p))
CallWsNest   == \E p \in Nests : Call("ws", p, ws(input, p))
CallManyNest == \E p \in ManyNests : Call("sep", p, sep(input, p))

NextNest ==
  \/ CallNest
  \/ CallWsNest
  \/ CallManyNest

SpecNest == Init /\ [][NextNest]_vars

(***************************************************************************)
(* Properties of nested composites                                         *)
(***************************************************************************)
NestCalled == pc = "done" /\ op = "sep"

\* i without its separator characters.
Squeeze(i) == SelectSeq(i, LAMBDA c : ~IsSep(c))

\* The grammar called, run on the input without its separators.
Squeezed == sep(Squeeze(input), gr)

\* When the grammar matches the input without its separators, it matches the
\* input as it is, with the same value and the same characters left.
SeparatorsConsumed ==
  Squeezed.tag = "Ok"
  => (res.tag = "Ok" /\ res.out = Squeezed.out /\ Squeeze(res.rest) = Squeezed.rest)

\* C18: in a composite nested in any supported composite, the element of
\* many0 and many1 included, separators between adjacent sub-parsers are
\* consumed as they are between the sub-parsers of the outer composite: the
\* separators of the input change neither the match nor its value.
C18_NestedCompositeRewritten == NestCalled => SeparatorsConsumed

\* The same for the composites other than many0 and many1.
NestedRewrittenOutsideMany ==
  (NestCalled /\ gr.kind \notin {"many0", "many1"}) => SeparatorsConsumed

\* A composite other than many0 and many1 matched with separators between the
\* tokens of the composite nested in it.
NestedSeparatorsSkipped ==
  /\ NestCalled /\ gr.kind \notin {"many0", "many1"}
  /\ Squeezed.tag = "Ok" /\ res.tag = "Ok"
  /\ \E n \in 1..(Len(input) - 2) :
       input[n] = "a" /\ IsSep(input[n + 1]) /\ input[n + 2] = "b"

(***************************************************************************)
(* Properties of the permutation loop                                      *)
(***************************************************************************)
\* The attempts of the permutation called.
Attempts == 1..Len(res.calls)

\* C19: the loop ends: a pass is started again only behind an attempt that
\* filled a slot (within a pass the slots are attempted in declaration order,
\* and a pass without a fill is the last), every fill is of another slot, so
\* there are at most N fills, N + 1 passes and N attempts in each.
C19_PermutationLoopEnds ==
  PermutationCalled =>
    /\ \A n \in Attempts \ {Len(res.calls)} :
         res.calls[n + 1].idx <= res.calls[n].idx => n \in Fills
    /\ \A m, n \in Fills : res.calls[m].idx = res.calls[n].idx => m = n
    /\ Cardinality(Fills) <= Len(gr.subs)
    /\ Len(res.calls) <= Len(gr.subs) * (Len(gr.subs) + 1)

\* Three slots filled by three restarts, the last slot declared first.
C19_Witness ==
  /\ PermutationSepCalled /\ Len(gr.subs) = 3
  /\ Cardinality(Fills) = 3 /\ Len(res.calls) = 6
  /\ res.tag = "Ok"

\* C20: the parser of a filled slot is not invoked again, so a slot is filled
\* once and keeps its value; the cursor moves only in an attempt that fills a
\* slot, to where that attempt's parser stopped, and an attempt that fails
\* leaves it where it was, separators included.
C20_SlotInvariant ==
  PermutationCalled =>
    /\ \A m, n \in Attempts :
         (m < n /\ res.calls[m].idx = res.calls[n].idx) => m \notin Fills
    /\ \A n \in Attempts \ {Len(res.calls)} :
         res.calls[n + 1].at = IF n \in Fills THEN Attempt(n).rest ELSE res.calls[n].at
    /\ res.tag = "Ok" =>
         \A k \in 1..Len(gr.subs) :
           \E n \in Fills : res.calls[n].idx = k /\ res.out[k] = Attempt(n).out
    /\ (res.tag = "Ok" /\ op = "direct") =>
         \E n \in Fills : (\A m \in Fills : m <= n) /\ res.rest = Attempt(n).rest

\* An attempt behind separators failed and the next slot was filled from the
\* same cursor, separators included; later the first slot was filled too.
C20_Witness ==
  /\ PermutationSepCalled /\ res.tag = "Ok"
  /\ \E n \in Attempts \ {Len(res.calls)} :
       /\ Attempt(n).tag = "Error"
       /\ res.calls[n].at # <<>> /\ IsSep(res.calls[n].at[1])
       /\ res.calls[n + 1].at = res.calls[n].at
       /\ (n + 1) \in Fills

====
